---- MODULE Spec2Model ----
(***************************************************************************)
(* The Pomodoro timer of src/src/components/Timer.tsx as a state machine.  *)
(*                                                                         *)
(* The component is a React function component.  Its state lives in        *)
(* useState cells; its behaviour lives in three event handlers             *)
(* (toggleTimer, resetTimer, handleSaveSettings), one interval callback    *)
(* and four effects (permission, load, save, tick) that React runs, in     *)
(* declaration order, after every render whose dependencies changed.       *)
(*                                                                         *)
(* A handler or callback step writes the state of the next render and      *)
(* records in `effects` which effects that render has to run.  The step    *)
(* Commit runs them: while `effects` is not empty nothing else is enabled, *)
(* so the effects of a render can be neither skipped nor delayed.  State   *)
(* updates an effect makes are batched and become the next render.         *)
(*                                                                         *)
(* Spec is the component in an environment whose storage and notification  *)
(* calls succeed and whose settings form is given values in range.         *)
(* SpecAnyInput also types out-of-range minutes into the form; SpecFaults  *)
(* also lets the stored item be unparsable and lets `new Notification` and *)
(* localStorage.setItem throw; SpecLive adds the fairness of the interval  *)
(* timer and of React's effect flush.                                      *)
(***************************************************************************)
EXTENDS Integers, FiniteSets, TLC

\* Largest work / break duration (minutes) the settings form is given here.
\* The inputs allow 1..60 and 1..30 (Timer.tsx:255-256, 269-270).
MaxWorkMinutes == 2
MaxBreakMinutes == 1
\* Granularity (ms) in which idle wall-clock time passes between events.
ClockStep == 500
\* Longest idle time (ms) the mounted component sits between two events.
MaxIdleMs == 1000
\* How far (ms) the wall clock may be set back behind a snapshot's lastUpdate.
MaxBackMs == 1000
\* Seconds the page may stay closed before it is loaded again.
ShortAway == 40
LongAway == 400
\* The clock is set back only while timeLeft is at most this far above the
\* longest work duration (keeps the state space finite).
MaxDriftSeconds == 1

VARIABLES
    isRunning,                  \* useState, Timer.tsx:9
    timeLeft,                   \* useState, Timer.tsx:10
    isBreak,                    \* useState, Timer.tsx:11
    hasNotificationPermission,  \* useState, Timer.tsx:15
    timerSettings,              \* useData().timerSettings, Timer.tsx:7
    timerState,                 \* localStorage item 'timerState'
    sinceLastUpdate,            \* Date.now() - timerState.lastUpdate, in ms
    permission,                 \* Notification.permission of the browser
    interval,                   \* pending setInterval handles: the timeLeft each captured
    effects,                    \* effects the current render still has to run
    dispatched,                 \* playNotificationSound/showNotification calls of the last commit
    notifications,              \* Notification objects created by the last commit
    loaded,                     \* what the load effect read in the last commit
    cmd,                        \* the last handler or callback that ran
    mounted,                    \* the component is mounted (no effect has thrown)
    failing,                    \* browser calls that throw: "Notification", "setItem"
    handsOff                    \* the user has stopped issuing commands

vars == <<isRunning, timeLeft, isBreak, hasNotificationPermission, timerSettings,
          timerState, sinceLastUpdate, permission, interval, effects,
          dispatched, notifications, loaded, cmd, mounted, failing, handsOff>>

\* localStorage.getItem('timerState') === null
NoItem == [none |-> TRUE]
\* The load effect did not run, or found no item.
NoLoad == [none |-> TRUE]
\* An item JSON.parse cannot parse (Timer.tsx:37 throws on it).
Malformed == [malformed |-> TRUE]

\* Values the two number inputs of the settings form are given: the range
\* each input declares (min = 1; max = 60 and 30), up to the bounds above.
WorkInput == 1..MaxWorkMinutes
BreakInput == 1..MaxBreakMinutes

\* Every effect of the component: all of them run after the first render.
AllEffects == {"permission", "load", "save", "tick"}

\* The state updates an effect run starts from: the values of this render.
Render ==
    [isRunning |-> isRunning, timeLeft |-> timeLeft, isBreak |-> isBreak,
     hasNotificationPermission |-> hasNotificationPermission,
     dispatched |-> 0, notifications |-> 0, error |-> FALSE]

\* Timer.tsx:70-91.  The tone is best effort; the call is what is counted.
playNotificationSound(q) == [q EXCEPT !.dispatched = @ + 1]

\* Timer.tsx:93-101.  Reads hasNotificationPermission of the render whose
\* effect calls it.  `new Notification` is not in a try block: when the
\* constructor throws, the error leaves the effect that called it.
showNotification(q) ==
    IF hasNotificationPermission
    THEN IF "Notification" \in failing
         THEN [q EXCEPT !.error = TRUE]
         ELSE [q EXCEPT !.notifications = @ + 1]
    ELSE q

\* Timer.tsx:18-31.  With the permission still 'default' the request stays
\* pending until the user answers (ResolvePermission).
permissionEffect(q) ==
    IF permission = "default" THEN q
    ELSE [q EXCEPT !.hasNotificationPermission = (permission = "granted")]

\* Timer.tsx:39.  Math.floor((now - lastUpdate) / 1000)
Elapsed == sinceLastUpdate \div 1000

\* loadResume that forgets the time spent away.
loadResume_ignoresElapsed(q, saved, elapsed) ==
    [q EXCEPT !.isRunning = TRUE,
              !.timeLeft = saved.timeLeft,
              !.isBreak = saved.isBreak]

\* Timer.tsx:42-44.  The snapshot was running and has time left.
loadResume(q, saved, elapsed) ==
    [q EXCEPT !.isRunning = TRUE,
              !.timeLeft = saved.timeLeft - elapsed,
              !.isBreak = saved.isBreak]

\* loadFinished that leaves the transition to the tick effect: it restores
\* the phase and sets timeLeft to 0.
loadFinished_viaTickEffect(q, saved) ==
    [q EXCEPT !.isRunning = FALSE,
              !.isBreak = saved.isBreak,
              !.timeLeft = 0]

\* Timer.tsx:47-51.  The snapshot was running and its phase ended while away.
loadFinished(q, saved) ==
    showNotification(playNotificationSound(
        [q EXCEPT !.isRunning = FALSE,
                  !.isBreak = ~saved.isBreak,
                  !.timeLeft = IF saved.isBreak
                               THEN timerSettings.workTime * 60
                               ELSE timerSettings.breakTime * 60]))

\* loadRestore that treats a paused snapshot like a running one.
loadRestore_subtractsElapsed(q, saved, elapsed) ==
    [q EXCEPT !.timeLeft = saved.timeLeft - elapsed,
              !.isBreak = saved.isBreak]

\* loadRestore without its setIsBreak: the phase of a paused snapshot is lost.
loadRestore_forgetsPhase(q, saved, elapsed) ==
    [q EXCEPT !.timeLeft = saved.timeLeft]

\* Timer.tsx:53-54.  The snapshot was paused.
loadRestore(q, saved, elapsed) ==
    [q EXCEPT !.timeLeft = saved.timeLeft,
              !.isBreak = saved.isBreak]

\* Timer.tsx:35-56.  The load effect on the item `item`, `elapsed` seconds
\* after it was saved.  JSON.parse is not in a try block.
loadFrom(q, item, elapsed) ==
    IF item = NoItem THEN q
    ELSE IF item = Malformed THEN [q EXCEPT !.error = TRUE]
    ELSE LET saved == item
         IN  IF saved.isRunning /\ saved.timeLeft > elapsed
             THEN loadResume(q, saved, elapsed)
             ELSE IF saved.isRunning /\ saved.timeLeft <= elapsed
             THEN loadFinished(q, saved)
             ELSE loadRestore(q, saved, elapsed)

\* Timer.tsx:34-57.
loadEffect(q) == loadFrom(q, timerState, Elapsed)

\* saveEffect that always stores the Work phase.
saveEffect_dropsPhase ==
    [isRunning |-> isRunning, timeLeft |-> timeLeft, isBreak |-> FALSE]

\* Timer.tsx:60-68.  The item written; lastUpdate is Date.now().
saveEffect ==
    [isRunning |-> isRunning, timeLeft |-> timeLeft, isBreak |-> isBreak]

\* tickEffect with the two durations swapped: the new phase starts with the
\* duration of the phase that just ended.
tickEffect_swappedDuration(q) ==
    IF isRunning /\ timeLeft > 0 THEN q
    ELSE IF timeLeft = 0
    THEN LET q1 == playNotificationSound(q)
             q2 == showNotification(q1)
         IN  IF isBreak
             THEN [q2 EXCEPT !.isBreak = FALSE,
                             !.timeLeft = timerSettings.breakTime * 60,
                             !.isRunning = FALSE]
             ELSE [q2 EXCEPT !.isBreak = TRUE,
                             !.timeLeft = timerSettings.workTime * 60,
                             !.isRunning = FALSE]
    ELSE q

\* tickEffect without its second branch: reaching 0 changes nothing.
tickEffect_noTransition(q) == q

\* tickEffect without the final setIsRunning(false): the next phase starts
\* counting at once.
tickEffect_keepsRunning(q) ==
    IF isRunning /\ timeLeft > 0 THEN q
    ELSE IF timeLeft = 0
    THEN LET q1 == playNotificationSound(q)
             q2 == showNotification(q1)
         IN  IF isBreak
             THEN [q2 EXCEPT !.isBreak = FALSE,
                             !.timeLeft = timerSettings.workTime * 60]
             ELSE [q2 EXCEPT !.isBreak = TRUE,
                             !.timeLeft = timerSettings.breakTime * 60]
    ELSE q

\* Timer.tsx:110-126.  The state updates of the tick effect.  The setters
\* follow showNotification, so they do not run when it throws.
tickEffect(q) ==
    IF isRunning /\ timeLeft > 0 THEN q
    ELSE IF timeLeft = 0
    THEN LET q1 == playNotificationSound(q)
             q2 == showNotification(q1)
         IN  IF q2.error THEN q2
             ELSE IF isBreak
             THEN [q2 EXCEPT !.isBreak = FALSE,
                             !.timeLeft = timerSettings.workTime * 60,
                             !.isRunning = FALSE]
             ELSE [q2 EXCEPT !.isBreak = TRUE,
                             !.timeLeft = timerSettings.breakTime * 60,
                             !.isRunning = FALSE]
    ELSE q

\* The cleanup forgotten: the previous interval keeps firing with the
\* timeLeft it captured.
clearInterval_forgotten(handles) == handles

\* Timer.tsx:128.  The cleanup of the tick effect's previous run.
clearInterval(handles) == {}

\* Timer.tsx:104-109, 128.  The handles pending after the tick effect ran:
\* the previous run is cleaned up, then a new interval captures timeLeft.
tickInterval ==
    IF isRunning /\ timeLeft > 0
    THEN clearInterval(interval) \cup {timeLeft}
    ELSE clearInterval(interval)

\* Dependency arrays of the save and tick effects (Timer.tsx:68, 129): the
\* effects the next render runs when an effect run changed the state to q.
effectsAfter(q) ==
    IF q.isRunning # isRunning \/ q.timeLeft # timeLeft \/ q.isBreak # isBreak
    THEN {"save", "tick"}
    ELSE {}

\* One commit: the pending effects run in declaration order on the values of
\* this render; their batched state updates are the next render.  No effect
\* catches what it throws (Timer.tsx:37, 67, 95) and the file has no error
\* boundary: an error unmounts the component (cleanup of the tick effect,
\* Timer.tsx:128).  Whether the component's later effects still run in that
\* commit differs between React versions (rest).
Commit ==
    /\ mounted
    /\ effects # {}
    /\ \E rest \in BOOLEAN :
       LET q1 == IF "permission" \in effects THEN permissionEffect(Render) ELSE Render
           q2 == IF "load" \in effects THEN loadEffect(q1) ELSE q1
           runSave == "save" \in effects /\ (~q2.error \/ rest)
           wrote == runSave /\ "setItem" \notin failing
           q2s == IF runSave /\ ~wrote THEN [q2 EXCEPT !.error = TRUE] ELSE q2
           runTick == "tick" \in effects /\ (~q2s.error \/ rest)
           q3 == IF runTick THEN tickEffect(q2s) ELSE q2s
       IN  /\ mounted' = ~q3.error
           /\ isRunning' = IF q3.error THEN isRunning ELSE q3.isRunning
           /\ timeLeft' = IF q3.error THEN timeLeft ELSE q3.timeLeft
           /\ isBreak' = IF q3.error THEN isBreak ELSE q3.isBreak
           /\ hasNotificationPermission' = q3.hasNotificationPermission
           /\ dispatched' = q3.dispatched
           /\ notifications' = q3.notifications
           /\ effects' = IF q3.error THEN {} ELSE effectsAfter(q3)
           /\ timerState' = IF wrote THEN saveEffect ELSE timerState
           /\ sinceLastUpdate' = IF wrote THEN 0 ELSE sinceLastUpdate
           /\ interval' = IF q3.error THEN clearInterval(interval)
                          ELSE IF "tick" \in effects THEN tickInterval
                          ELSE interval
    /\ loaded' = IF "load" \in effects /\ timerState # NoItem
                 THEN [snap |-> timerState, elapsed |-> Elapsed,
                       mount |-> "permission" \in effects]
                 ELSE NoLoad
    /\ UNCHANGED <<timerSettings, permission, cmd, failing, handsOff>>

\* Timer.tsx:107-109.  The interval callback: setTimeLeft(timeLeft - 1) with
\* the timeLeft the interval captured, one period (1000 ms) after the commit.
Tick ==
    /\ mounted
    /\ effects = {}
    /\ \E captured \in interval :
        /\ timeLeft' = captured - 1
        /\ effects' = IF captured - 1 # timeLeft THEN {"save", "tick"} ELSE {}
    /\ sinceLastUpdate' = IF timerState \in {NoItem, Malformed} THEN 0
                          ELSE sinceLastUpdate + 1000
    /\ cmd' = "tick"
    /\ dispatched' = 0 /\ notifications' = 0 /\ loaded' = NoLoad
    /\ UNCHANGED <<mounted, failing, handsOff>>
    /\ UNCHANGED <<isRunning, isBreak, hasNotificationPermission, timerSettings,
                   timerState, permission, interval>>

\* Timer.tsx:131-133.
toggleTimer ==
    /\ mounted
    /\ effects = {}
    /\ isRunning' = ~isRunning
    /\ effects' = {"save", "tick"}
    /\ cmd' = "toggle"
    /\ dispatched' = 0 /\ notifications' = 0 /\ loaded' = NoLoad
    /\ UNCHANGED <<mounted, failing, handsOff>>
    /\ UNCHANGED <<timeLeft, isBreak, hasNotificationPermission, timerSettings,
                   timerState, sinceLastUpdate, permission, interval>>

\* Timer.tsx:135-139.  React re-renders only when a state value changed.
resetTimer ==
    /\ mounted
    /\ effects = {}
    /\ isRunning' = FALSE
    /\ timeLeft' = IF isBreak THEN timerSettings.breakTime * 60
                              ELSE timerSettings.workTime * 60
    /\ timerState' = NoItem
    /\ sinceLastUpdate' = 0
    /\ effects' = IF isRunning' # isRunning \/ timeLeft' # timeLeft
                  THEN {"save", "tick"} ELSE {}
    /\ cmd' = "reset"
    /\ dispatched' = 0 /\ notifications' = 0 /\ loaded' = NoLoad
    /\ UNCHANGED <<mounted, failing, handsOff>>
    /\ UNCHANGED <<isBreak, hasNotificationPermission, timerSettings,
                   permission, interval>>

\* DataContext.updateTimerSettings: stores the new settings object in the
\* settings provider, which hands it to the component on the next render.
updateTimerSettings(workTime, breakTime) ==
    [workTime |-> workTime, breakTime |-> breakTime]

\* Timer.tsx:147-154, with workTime and breakTime the values typed into the
\* form (Timer.tsx:258, 272).  timerSettings is a new object, so the load and
\* tick effects run again.
handleSaveSettings(workTime, breakTime) ==
    /\ mounted
    /\ effects = {}
    /\ timerSettings' = updateTimerSettings(workTime, breakTime)
    /\ timeLeft' = IF ~isRunning
                   THEN (IF isBreak THEN breakTime * 60 ELSE workTime * 60)
                   ELSE timeLeft
    /\ effects' = {"load", "tick"}
                  \cup (IF timeLeft' # timeLeft THEN {"save"} ELSE {})
    /\ cmd' = "settings"
    /\ dispatched' = 0 /\ notifications' = 0 /\ loaded' = NoLoad
    /\ UNCHANGED <<mounted, failing, handsOff>>
    /\ UNCHANGED <<isRunning, isBreak, hasNotificationPermission, timerState,
                   sinceLastUpdate, permission, interval>>

\* Timer.tsx:22-23, 237-240.  The user answers the permission prompt.
ResolvePermission(answer) ==
    /\ mounted
    /\ effects = {}
    /\ permission = "default"
    /\ permission' = answer
    /\ hasNotificationPermission' = (answer = "granted")
    /\ dispatched' = 0 /\ notifications' = 0 /\ loaded' = NoLoad
    /\ UNCHANGED <<mounted, failing, handsOff>>
    /\ UNCHANGED <<isRunning, timeLeft, isBreak, timerSettings, timerState,
                   sinceLastUpdate, interval, effects, cmd>>

\* Wall-clock time passes with no event (Date.now() of Timer.tsx:38 grows).
Advance ==
    /\ mounted
    /\ effects = {}
    /\ timerState # NoItem
    /\ sinceLastUpdate + ClockStep <= MaxIdleMs
    /\ sinceLastUpdate' = sinceLastUpdate + ClockStep
    /\ dispatched' = 0 /\ notifications' = 0 /\ loaded' = NoLoad
    /\ UNCHANGED <<mounted, failing, handsOff>>
    /\ UNCHANGED <<isRunning, timeLeft, isBreak, hasNotificationPermission,
                   timerSettings, timerState, permission, interval, effects, cmd>>

\* The wall clock is set back (Date.now() of Timer.tsx:38 is earlier than
\* the lastUpdate of Timer.tsx:65).
SetBack ==
    /\ mounted
    /\ effects = {}
    /\ timerState # NoItem
    /\ sinceLastUpdate - ClockStep >= 0 - MaxBackMs
    /\ timeLeft <= MaxWorkMinutes * 60 + MaxDriftSeconds
    /\ sinceLastUpdate' = sinceLastUpdate - ClockStep
    /\ dispatched' = 0 /\ notifications' = 0 /\ loaded' = NoLoad
    /\ UNCHANGED <<mounted, failing, handsOff>>
    /\ UNCHANGED <<isRunning, timeLeft, isBreak, hasNotificationPermission,
                   timerSettings, timerState, permission, interval, effects, cmd>>

\* Timer.tsx:9-15, 128.  The page is closed and, `away` seconds later, loaded
\* again: the component unmounts (cleanup of the tick effect) and mounts with
\* the useState initial values; every effect runs after the first render.
Reload(away) ==
    /\ effects = {}
    /\ isRunning' = FALSE
    /\ timeLeft' = timerSettings.workTime * 60
    /\ isBreak' = FALSE
    /\ hasNotificationPermission' = FALSE
    /\ interval' = clearInterval(interval)
    /\ effects' = AllEffects
    /\ sinceLastUpdate' = IF timerState \in {NoItem, Malformed} THEN 0
                          ELSE sinceLastUpdate + away * 1000
    /\ cmd' = "mount"
    /\ mounted' = TRUE
    /\ dispatched' = 0 /\ notifications' = 0 /\ loaded' = NoLoad
    /\ UNCHANGED <<timerSettings, timerState, permission, failing, handsOff>>

\* Timer.tsx:9-15.  The first mount, over an empty localStorage.
Init ==
    /\ timerSettings \in [workTime : WorkInput, breakTime : BreakInput]
    /\ isRunning = FALSE
    /\ timeLeft = timerSettings.workTime * 60
    /\ isBreak = FALSE
    /\ hasNotificationPermission = FALSE
    /\ timerState = NoItem
    /\ sinceLastUpdate = 0
    /\ permission \in {"default", "granted", "denied"}
    /\ interval = {}
    /\ effects = AllEffects
    /\ dispatched = 0
    /\ notifications = 0
    /\ loaded = NoLoad
    /\ cmd = "mount"
    /\ mounted = TRUE
    /\ failing = {}
    /\ handsOff = FALSE

SaveSettings == \E w \in WorkInput, b \in BreakInput : handleSaveSettings(w, b)

AnswerPrompt == \E answer \in {"granted", "denied"} : ResolvePermission(answer)

Remount == \E away \in {0, 1, ShortAway, LongAway} : Reload(away)

Next ==
    \/ Commit
    \/ Tick
    \/ toggleTimer
    \/ resetTimer
    \/ SaveSettings
    \/ AnswerPrompt
    \/ Advance
    \/ SetBack
    \/ Remount

Spec == Init /\ [][Next]_vars

\* The engine has settled: every effect of the current render has run.
Settled == effects = {}

(***************************************************************************)
(* The settings form with out-of-range input                               *)
(***************************************************************************)

\* Timer.tsx:256, 270.  The max attributes of the two number fields.
WorkTimeMax == 60
BreakTimeMax == 30

\* Timer.tsx:255-256, 269-270.  The ranges the form declares (min and max).
ValidMinutes(workTime, breakTime) ==
    /\ 1 <= workTime /\ workTime <= WorkTimeMax
    /\ 1 <= breakTime /\ breakTime <= BreakTimeMax

\* Timer.tsx:258, 272.  parseInt(e.target.value) of what was typed: min and
\* max do not stop the user typing 0.
AnyWorkInput == 0..MaxWorkMinutes
AnyBreakInput == 0..MaxBreakMinutes

TypeAnything ==
    \E w \in AnyWorkInput, b \in AnyBreakInput : handleSaveSettings(w, b)

\* The component with such a form; the wall clock moves only with the ticks.
NextAnyInput ==
    \/ Commit
    \/ Tick
    \/ toggleTimer
    \/ resetTimer
    \/ TypeAnything
    \/ Remount

SpecAnyInput == Init /\ [][NextAnyInput]_vars

(***************************************************************************)
(* Failing storage and notifications                                       *)
(***************************************************************************)

\* Timer.tsx:35-37.  The item under 'timerState' is replaced, by something
\* other than this component, with a value JSON.parse cannot parse.
Corrupt ==
    /\ effects = {}
    /\ timerState # Malformed
    /\ timerState' = Malformed
    /\ sinceLastUpdate' = 0
    /\ dispatched' = 0 /\ notifications' = 0 /\ loaded' = NoLoad
    /\ UNCHANGED <<isRunning, timeLeft, isBreak, hasNotificationPermission,
                   timerSettings, permission, interval, effects, cmd,
                   mounted, failing, handsOff>>

\* Timer.tsx:67, 95.  From now on the browser call throws: setItem when the
\* storage quota is exhausted or storage is blocked, the Notification
\* constructor where the platform allows notifications only from a service
\* worker.
StartFailing(call) ==
    /\ effects = {}
    /\ call \notin failing
    /\ failing' = failing \cup {call}
    /\ dispatched' = 0 /\ notifications' = 0 /\ loaded' = NoLoad
    /\ UNCHANGED <<isRunning, timeLeft, isBreak, hasNotificationPermission,
                   timerSettings, timerState, sinceLastUpdate, permission,
                   interval, effects, cmd, mounted, handsOff>>

\* Timer.tsx:67, 95.  The browser calls succeed again.
Recover ==
    /\ effects = {}
    /\ failing # {}
    /\ failing' = {}
    /\ dispatched' = 0 /\ notifications' = 0 /\ loaded' = NoLoad
    /\ UNCHANGED <<isRunning, timeLeft, isBreak, hasNotificationPermission,
                   timerSettings, timerState, sinceLastUpdate, permission,
                   interval, effects, cmd, mounted, handsOff>>

Fail == \E call \in {"Notification", "setItem"} : StartFailing(call)

ReloadNow == Reload(0)

\* The component in an environment whose storage and notifications can fail.
NextFaults ==
    \/ Commit
    \/ Tick
    \/ toggleTimer
    \/ resetTimer
    \/ AnswerPrompt
    \/ ReloadNow
    \/ Corrupt
    \/ Fail
    \/ Recover

SpecFaults == Init /\ [][NextFaults]_vars

(***************************************************************************)
(* The timer left to itself                                                *)
(***************************************************************************)

\* Timer.tsx:205, 217, 286.  The user stops pressing the buttons: no start,
\* pause, reset, settings save or reload from here on.
LetGo ==
    /\ mounted
    /\ effects = {}
    /\ ~handsOff
    /\ handsOff' = TRUE
    /\ dispatched' = 0 /\ notifications' = 0 /\ loaded' = NoLoad
    /\ UNCHANGED <<isRunning, timeLeft, isBreak, hasNotificationPermission,
                   timerSettings, timerState, sinceLastUpdate, permission,
                   interval, effects, cmd, mounted, failing>>

\* The commands of the user, while they still issue any.
UserCommand ==
    /\ ~handsOff
    /\ \/ toggleTimer
       \/ resetTimer
       \/ SaveSettings
       \/ Remount

\* The wall clock moves only with the ticks and across a reload.
NextLive ==
    \/ Commit
    \/ Tick
    \/ UserCommand
    \/ LetGo
    \/ AnswerPrompt

\* Timer.tsx:105-109: setInterval keeps calling back while the interval is
\* pending; React runs the effects of every render it commits.
SpecLive ==
    /\ Init
    /\ [][NextLive]_vars
    /\ WF_vars(Tick)
    /\ WF_vars(Commit)

(***************************************************************************)
(* Properties                                                              *)
(***************************************************************************)

TypeOK ==
    /\ isRunning \in BOOLEAN
    /\ timeLeft \in Int
    /\ isBreak \in BOOLEAN
    /\ hasNotificationPermission \in BOOLEAN
    /\ timerSettings \in [workTime : WorkInput, breakTime : BreakInput]
    /\ \/ timerState \in {NoItem, Malformed}
       \/ timerState \in [isRunning : BOOLEAN, timeLeft : Int, isBreak : BOOLEAN]
    /\ sinceLastUpdate \in Int
    /\ permission \in {"default", "granted", "denied"}
    /\ interval \subseteq Int
    /\ effects \subseteq AllEffects
    /\ dispatched \in Nat
    /\ notifications \in Nat
    /\ cmd \in {"mount", "tick", "toggle", "reset", "settings"}
    /\ mounted \in BOOLEAN
    /\ failing \subseteq {"Notification", "setItem"}
    /\ handsOff \in BOOLEAN

\* Seconds of a full phase under settings s (spec: phaseDurationSeconds).
fullDuration(brk, s) == IF brk THEN s.breakTime * 60 ELSE s.workTime * 60

\* t is a legal remaining time of phase brk under the current settings.
InRange(brk, t) == 0 <= t /\ t <= fullDuration(brk, timerSettings)

\* The in-memory state and the stored snapshot are both in range.
StateInRange ==
    /\ InRange(isBreak, timeLeft)
    /\ timerState # NoItem => InRange(timerState.isBreak, timerState.timeLeft)

\* C1 as stated: in every reachable state
\* 0 <= timeLeft <= fullDuration(phase) under the current settings.
C1_Original == InRange(isBreak, timeLeft)

\* C1, amended: timeLeft is never negative, and the range
\* 0 <= timeLeft <= fullDuration(phase), of the state and of the stored
\* snapshot, is kept by every step that leaves the settings as they are and
\* starts with the clock not behind the snapshot's lastUpdate.  (It holds
\* initially; only a settings update under a running or restored countdown,
\* or a reconciliation against a clock that was set back, leaves it.)
C1_RangeKept ==
    /\ StateInRange
    /\ [](timeLeft >= 0)
    /\ [][(StateInRange /\ timerSettings' = timerSettings /\ sinceLastUpdate >= 0)
            => StateInRange']_vars

\* C1 witness: a phase has ended by ticks and the next one, with a different
\* duration, has started in range.
C1_Witness ==
    /\ cmd = "tick" /\ Settled /\ isBreak
    /\ timerSettings.workTime # timerSettings.breakTime
    /\ timeLeft = timerSettings.breakTime * 60
    /\ StateInRange

\* C2 as stated: in every reachable state, and in every stored snapshot,
\* running implies timeLeft > 0.
C2_Original ==
    /\ isRunning => timeLeft > 0
    /\ (timerState # NoItem /\ timerState.isRunning) => timerState.timeLeft > 0

\* C2, amended: running with timeLeft = 0 occurs only in the one render
\* between the tick that reaches 0 and the tick effect that performs the
\* transition, and a stored snapshot with isRunning and timeLeft = 0 only
\* until the save effect of the next render overwrites it; once the engine
\* has settled, running implies timeLeft > 0 in the state and in the snapshot.
C2_RunningPositive ==
    /\ (isRunning /\ timeLeft <= 0) => "tick" \in effects
    /\ (timerState # NoItem /\ timerState.isRunning /\ timerState.timeLeft <= 0)
            => "save" \in effects

\* C2 witness: the render in which the countdown has reached 0 while running.
C2_Witness == isRunning /\ timeLeft = 0 /\ cmd = "tick" /\ "tick" \in effects

\* The last commit performed a phase transition: by the tick effect at
\* timeLeft = 0 or by the load effect's "finished while away" branch (both,
\* and only they, dispatch a notification).
Transitioned == dispatched > 0

\* The last commit's load effect read a snapshot that was running.
LoadedRunning == loaded # NoLoad /\ loaded.snap.isRunning

\* C3: the commit that performs a phase transition leaves isRunning false,
\* whatever it was before; isRunning turns true again only by toggleTimer (the
\* user's start) or by the load effect resuming a snapshot stored as running;
\* and a settled paused state never has such a snapshot, so after a transition
\* the timer stays paused until the user starts it.
C3_AutoPause ==
    /\ [][Transitioned' => ~isRunning']_vars
    /\ [][(~isRunning /\ isRunning') => (toggleTimer \/ LoadedRunning')]_vars
    /\ []((Settled /\ ~isRunning /\ timerState # NoItem) => ~timerState.isRunning)

\* C3 witness: a countdown that was running reached 0 by a tick, the
\* transition ran, and the timer is paused in the next phase.
C3_Witness ==
    /\ Transitioned /\ cmd = "tick" /\ loaded = NoLoad
    /\ ~isRunning /\ isBreak /\ timeLeft = timerSettings.breakTime * 60
    /\ timerState # NoItem /\ timerState.isRunning /\ timerState.timeLeft = 0

\* The last commit's load effect took its "finished while away" branch.
LoadedFinished == LoadedRunning /\ loaded.snap.timeLeft <= loaded.elapsed

\* C4: the commit that performs a phase transition flips the phase that ended
\* (the rendered phase for a tick transition, the snapshot's phase for the
\* catch-up transition) and sets timeLeft to the full duration of the new
\* phase under the settings current in that commit.
C4_Transition ==
    [][Transitioned' =>
        LET ended == IF LoadedFinished' THEN loaded'.snap.isBreak ELSE isBreak
        IN  /\ isBreak' = ~ended
            /\ timeLeft' = fullDuration(isBreak', timerSettings)
            /\ timerSettings' = timerSettings]_vars

\* C4 witness: a Break phase ended by a tick and Work started with the full
\* work duration, which differs from the break duration.
C4_Witness ==
    /\ Transitioned /\ cmd = "tick" /\ ~LoadedFinished
    /\ ~isBreak /\ timerState.isBreak /\ timerState.timeLeft = 0
    /\ timeLeft = timerSettings.workTime * 60
    /\ timerSettings.workTime # timerSettings.breakTime

\* C5: a tick fires only while running with timeLeft > 0; it decreases
\* timeLeft by exactly 1 and leaves the phase and isRunning as they are; and
\* while not running no tick is pending, so none changes timeLeft.
C5_TickByOne ==
    /\ [][Tick => /\ isRunning /\ timeLeft > 0
                  /\ timeLeft' = timeLeft - 1
                  /\ isBreak' = isBreak /\ isRunning' = isRunning]_vars
    /\ []((Settled /\ ~isRunning) => ~ENABLED Tick)

\* C5 witness: a tick has just taken a running countdown from 60 to 59.
C5_Witness ==
    /\ cmd = "tick" /\ effects = {"save", "tick"}
    /\ isRunning /\ timeLeft = 59
    /\ timerState.isRunning /\ timerState.timeLeft = 60

\* The last commit was the first one after a mount and its load effect found
\* a snapshot: the initialization reconciled against it.
Reconciled == loaded # NoLoad /\ loaded.mount

\* The rendered state is left as it is by a step.
StateKept == isRunning' = isRunning /\ timeLeft' = timeLeft /\ isBreak' = isBreak

\* Reconciliation against a running snapshot with 0 <= elapsed < timeLeft.
ShortAbsence ==
    /\ Reconciled /\ loaded.snap.isRunning
    /\ 0 <= loaded.elapsed /\ loaded.elapsed < loaded.snap.timeLeft

\* C6: reconciliation against a running snapshot {r, p} with 0 <= e < r
\* yields isRunning, timeLeft = r - e, phase p and dispatches no
\* notification; the commit that follows keeps that state and dispatches
\* nothing either.
C6_ShortAbsence ==
    /\ [](ShortAbsence =>
            /\ isRunning
            /\ timeLeft = loaded.snap.timeLeft - loaded.elapsed
            /\ isBreak = loaded.snap.isBreak
            /\ dispatched = 0 /\ notifications = 0)
    /\ [][(ShortAbsence /\ Commit) => (StateKept /\ dispatched' = 0)]_vars

\* C6 witness: the spec's example, {running, timeLeft 100, Work} loaded 40 s
\* later gives {running, 60, Work}.
C6_Witness ==
    /\ ShortAbsence
    /\ loaded.snap = [isRunning |-> TRUE, timeLeft |-> 100, isBreak |-> FALSE]
    /\ loaded.elapsed = 40
    /\ isRunning /\ timeLeft = 60 /\ ~isBreak

\* Reconciliation against a running snapshot with elapsed >= timeLeft.
LongAbsence == Reconciled /\ LoadedFinished

\* C7: reconciliation against a running snapshot {r, p} with e >= r applies
\* exactly one flip: isRunning is false, the phase is the opposite of p,
\* timeLeft is the full duration of the new phase, and one notification was
\* dispatched (one playNotificationSound and one showNotification call); the
\* commit that follows keeps that state and dispatches nothing.
C7_LongAbsence ==
    /\ [](LongAbsence =>
            /\ ~isRunning
            /\ isBreak = ~loaded.snap.isBreak
            /\ timeLeft = fullDuration(isBreak, timerSettings)
            /\ dispatched = 1 /\ notifications <= 1)
    /\ [][(LongAbsence /\ Commit) => (StateKept /\ dispatched' = 0)]_vars

\* C7 witness: the spec's example, {running, timeLeft 100, Work} loaded
\* 400 s later (more than a whole further cycle) gives {paused, Break, full}.
C7_Witness ==
    /\ LongAbsence
    /\ loaded.snap = [isRunning |-> TRUE, timeLeft |-> 100, isBreak |-> FALSE]
    /\ loaded.elapsed = 400
    /\ loaded.elapsed >=
         100 + (timerSettings.workTime + timerSettings.breakTime) * 60
    /\ ~isRunning /\ isBreak /\ timeLeft = timerSettings.breakTime * 60
    /\ dispatched = 1

\* Reconciliation against a paused snapshot.
PausedSnapshot == Reconciled /\ ~loaded.snap.isRunning

\* C8: reconciliation against a paused snapshot restores timeLeft and the
\* phase as stored and leaves isRunning false, whatever time has elapsed; the
\* commit that follows keeps that state.
C8_PausedSnapshot ==
    /\ [](PausedSnapshot =>
            /\ ~isRunning
            /\ timeLeft = loaded.snap.timeLeft
            /\ isBreak = loaded.snap.isBreak
            /\ dispatched = 0)
    /\ [][(PausedSnapshot /\ Commit) => (StateKept /\ dispatched' = 0)]_vars

\* C8 witness: a Break paused at 30 s is restored as it was 400 s later.
C8_Witness ==
    /\ PausedSnapshot
    /\ loaded.snap = [isRunning |-> FALSE, timeLeft |-> 30, isBreak |-> TRUE]
    /\ loaded.elapsed = 400
    /\ ~isRunning /\ timeLeft = 30 /\ isBreak

\* C9 as stated: once the engine has settled after resetTimer, localStorage
\* holds no 'timerState' item.
C9_ResetClears == (Settled /\ cmd = "reset") => timerState = NoItem

\* C10 as stated: once the engine has settled after handleSaveSettings ran
\* with the timer paused, timeLeft is the full duration of the current phase
\* under the new settings.
C10_PausedRebase ==
    (Settled /\ cmd = "settings" /\ ~isRunning)
        => timeLeft = fullDuration(isBreak, timerSettings)

\* C11: a settings update committed while the timer is running leaves
\* isRunning, timeLeft and the phase unchanged: neither the handler nor any
\* commit that follows it before the next tick changes them.
C11_RunningUpdate ==
    /\ [][(isRunning /\ SaveSettings) => StateKept]_vars
    /\ [][(cmd = "settings" /\ isRunning /\ Commit) => StateKept]_vars

\* Timer.tsx:9-11, 34-57.  The state of a freshly mounted component after its
\* load effect read `item` with Date.now() equal to the item's lastUpdate.
freshFrom(item) ==
    loadFrom([Render EXCEPT !.isRunning = FALSE,
                            !.timeLeft = timerSettings.workTime * 60,
                            !.isBreak = FALSE],
             item, 0)

\* Storing the rendered state and initializing from the stored item with no
\* time elapsed gives the rendered state back.
RoundTrip ==
    LET r == freshFrom(saveEffect)
    IN  r.isRunning = isRunning /\ r.timeLeft = timeLeft /\ r.isBreak = isBreak

\* C12 as stated: the round trip reproduces every reachable in-memory state.
C12_Original == RoundTrip

\* C12 amended: the round trip reproduces every in-memory state except the
\* render in which a running countdown stands at 0; and a reload that finds a
\* snapshot less than a second old ends in exactly the stored isRunning,
\* timeLeft and phase.
C12_RoundTrip ==
    /\ ~(isRunning /\ timeLeft = 0) => RoundTrip
    /\ (Reconciled /\ loaded.elapsed = 0) =>
            /\ isRunning = loaded.snap.isRunning
            /\ timeLeft = loaded.snap.timeLeft
            /\ isBreak = loaded.snap.isBreak

\* C12 witness: a reload with no time elapsed has resumed the running
\* snapshot {timeLeft 59, Work}.
C12_Witness ==
    /\ Reconciled /\ loaded.elapsed = 0
    /\ loaded.snap = [isRunning |-> TRUE, timeLeft |-> 59, isBreak |-> FALSE]
    /\ isRunning /\ timeLeft = 59 /\ ~isBreak

\* C13: saving settings with work minutes outside 1..60 or break minutes
\* outside 1..30 is rejected: the stored settings, timeLeft, the phase and
\* isRunning are all left as they were.
C13_Rejected ==
    [][(\E w \in AnyWorkInput, b \in AnyBreakInput :
            ~ValidMinutes(w, b) /\ handleSaveSettings(w, b))
        => UNCHANGED <<timerSettings, isRunning, timeLeft, isBreak>>]_vars

\* C14: initialization over an unparsable 'timerState' item raises no error
\* and ends in the default state: mounted, paused, Work, at the full work
\* duration.
C14_MalformedIgnored ==
    (loaded # NoLoad /\ loaded.mount /\ loaded.snap = Malformed) =>
        /\ mounted
        /\ ~isRunning /\ ~isBreak
        /\ timeLeft = timerSettings.workTime * 60

\* C15: when only the notification call fails, the commit that finds the
\* countdown at 0 still flips the phase, resets timeLeft to the new phase's
\* full duration and pauses.
C15_TransitionNotBlocked ==
    [][(/\ Commit
        /\ "tick" \in effects /\ "load" \notin effects
        /\ timeLeft = 0
        /\ failing \subseteq {"Notification"})
       => /\ mounted'
          /\ ~isRunning'
          /\ isBreak' = ~isBreak
          /\ timeLeft' = fullDuration(~isBreak, timerSettings)]_vars

\* C16: when only the storage write fails, the commit of a running countdown
\* keeps the component alive with its state and with the next tick scheduled.
C16_WriteFailureSurvived ==
    [][(/\ Commit
        /\ "save" \in effects /\ "load" \notin effects
        /\ isRunning /\ timeLeft > 0
        /\ failing = {"setItem"})
       => /\ mounted'
          /\ StateKept
          /\ interval' = {timeLeft}]_vars

\* C17: after every tick and every start or pause, once every effect has run,
\* the 'timerState' item exists and its isRunning, timeLeft and isBreak equal
\* the in-memory state.
C17_SnapshotMirrors ==
    (Settled /\ cmd \in {"tick", "toggle"}) =>
        /\ timerState # NoItem
        /\ timerState.isRunning = isRunning
        /\ timerState.timeLeft = timeLeft
        /\ timerState.isBreak = isBreak

\* C17 witness: a tick of the Break countdown has been processed and the item
\* holds the running Break state at 59.
C17_Witness ==
    /\ Settled /\ cmd = "tick"
    /\ isRunning /\ isBreak /\ timeLeft = 59
    /\ timerState = [isRunning |-> TRUE, timeLeft |-> 59, isBreak |-> TRUE]

\* C18: at most one interval is pending at any time; a commit that runs the
\* tick effect (isRunning, timeLeft, the phase or the settings changed) cancels
\* the pending interval, so that any interval pending afterwards is the one it
\* started on the current timeLeft; no interval is pending in a settled state
\* with isRunning false, and no tick can fire while isRunning is false.
C18_OnePendingTick ==
    /\ [](Cardinality(interval) <= 1)
    /\ [][(Commit /\ "tick" \in effects) => interval' \subseteq {timeLeft}]_vars
    /\ []((Settled /\ ~isRunning) => interval = {})
    /\ [](~isRunning => ~ENABLED Tick)

\* C18 witness: the countdown was paused at 58 and the interval that was
\* pending has been cancelled.
C18_Witness ==
    /\ Settled /\ cmd = "toggle"
    /\ ~isRunning /\ timeLeft = 58
    /\ interval = {}

\* C19: when the snapshot's save time is later than now and the snapshot was
\* running, reconciliation counts no elapsed time: the timer resumes running
\* in the stored phase with timeLeft equal to the stored value.
C19_ElapsedClamped ==
    (Reconciled /\ loaded.snap.isRunning /\ loaded.elapsed < 0) =>
        /\ isRunning
        /\ timeLeft = loaded.snap.timeLeft
        /\ isBreak = loaded.snap.isBreak

\* C20: once the user issues no further command, a running countdown with
\* timeLeft > 0 eventually reaches, by the interval's ticks, a state that is
\* paused, in the opposite phase and at that phase's full duration; it does
\* not stay at timeLeft = 0.
C20_ReachesTransition ==
    /\ (handsOff /\ isRunning /\ timeLeft > 0 /\ ~isBreak)
          ~> (~isRunning /\ isBreak
              /\ timeLeft = fullDuration(TRUE, timerSettings))
    /\ (handsOff /\ isRunning /\ timeLeft > 0 /\ isBreak)
          ~> (~isRunning /\ ~isBreak
              /\ timeLeft = fullDuration(FALSE, timerSettings))
    /\ (handsOff /\ isRunning /\ timeLeft = 0) ~> ~isRunning

\* C20 witness: after the user let go of a running Work countdown, a tick
\* took it to 0 and the transition has left it paused in Break at the full
\* break duration.
C20_Witness ==
    /\ handsOff
    /\ cmd = "tick" /\ Transitioned
    /\ ~isRunning /\ isBreak
    /\ timeLeft = fullDuration(TRUE, timerSettings)

====
